---- MODULE Spec2Model ----
(***************************************************************************)
(* Model of the AI Feedback Analyzer backend: the sentiment service        *)
(* (initPipeline, preprocessText, analyzeReviews), the Gemini service      *)
(* (analyzeAndRecommend, chunkArray) and the two HTTP handlers             *)
(* POST /api/analyze and POST /api/recommendations.                        *)
(*                                                                         *)
(* Strings are sequences of one-character strings, so that toLowerCase,   *)
(* trim, the regular expressions and join are computed, not assumed.       *)
(* Scores are integers in units of 1/ScoreScale.                           *)
(***************************************************************************)
EXTENDS Integers, Sequences, FiniteSets, TLC

\* ------------------------------------------------------------ bounds
\* Concurrent /api/analyze requests.
NumReq == 2
\* Data rows of an uploaded CSV when one request runs alone.
MaxRows == 2
\* Length of negativeReviews in a /api/recommendations body.
MaxNeg == 4
\* Largest explicit chunkSize / maxReviews value in a body.
MaxParam == 3
\* Iterations of the loop of chunkArray that are followed when it cannot end.
MaxLoop == 5
\* Length of the texts preprocessText is applied to on its own.
MaxLen == 4
\* Drops on the dropzone of the Analyze page.
MaxDrops == 3
\* Clicks on the reset buttons of the Analyze page.
MaxResets == 2

\* ------------------------------------------------------------ characters
UpperCase ==
  <<"A","B","C","D","E","F","G","H","I","J","K","L","M",
    "N","O","P","Q","R","S","T","U","V","W","X","Y","Z">>
LowerCase ==
  <<"a","b","c","d","e","f","g","h","i","j","k","l","m",
    "n","o","p","q","r","s","t","u","v","w","x","y","z">>
Digits == {"0","1","2","3","4","5","6","7","8","9"}

Range(f) == {f[i] : i \in DOMAIN f}
LowerLetters == Range(LowerCase)
UpperLetters == Range(UpperCase)

\* \s of the regular expressions and the characters trim() strips.
WhiteSpace == {" ", "\t", "\n", "\r"}
\* \w of the regular expressions.
WordChars == LowerLetters \cup UpperLetters \cup Digits \cup {"_"}

Min(a, b) == IF a < b THEN a ELSE b
Max(a, b) == IF a > b THEN a ELSE b

\* String.prototype.toLowerCase, one character.
toLowerChar(c) ==
  IF c \in UpperLetters
    THEN LowerCase[CHOOSE i \in DOMAIN UpperCase : UpperCase[i] = c]
    ELSE c

\* String.prototype.toLowerCase.
toLowerCase(s) == [i \in 1..Len(s) |-> toLowerChar(s[i])]

\* s has the literal lit at position i (1-based).
HasAt(s, i, lit) ==
  /\ i + Len(lit) - 1 <= Len(s)
  /\ \A k \in 1..Len(lit) : s[i + k - 1] = lit[k]

\* String.prototype.includes.
includes(s, lit) == \E i \in 1..(Len(s) + 1) : HasAt(s, i, lit)

\* First position >= i of s whose character is not in set (Len(s)+1 if none):
\* the end of a greedy run  [set]*  that starts at i.
RECURSIVE RunEnd(_, _, _)
RunEnd(s, i, set) ==
  IF i > Len(s) \/ s[i] \notin set THEN i ELSE RunEnd(s, i + 1, set)

NonSpaceOf(s) == Range(s) \ WhiteSpace

\* String.prototype.trim.
RECURSIVE trimStart(_)
trimStart(s) ==
  IF s # <<>> /\ Head(s) \in WhiteSpace THEN trimStart(Tail(s)) ELSE s
RECURSIVE trimEnd(_)
trimEnd(s) ==
  IF s # <<>> /\ s[Len(s)] \in WhiteSpace
    THEN trimEnd(SubSeq(s, 1, Len(s) - 1)) ELSE s
trim(s) == trimEnd(trimStart(s))

\* ------------------------------------------------------------ preprocessText
\* .replace(/http\S+|www\S+|https\S+/g, ''): scanning from position i, the
\* alternatives are tried in order and \S+ is greedy.
RECURSIVE removeUrls(_, _)
removeUrls(s, i) ==
  IF i > Len(s) THEN <<>>
  ELSE IF HasAt(s, i, <<"h","t","t","p">>) /\ RunEnd(s, i + 4, NonSpaceOf(s)) > i + 4
    THEN removeUrls(s, RunEnd(s, i + 4, NonSpaceOf(s)))
  ELSE IF HasAt(s, i, <<"w","w","w">>) /\ RunEnd(s, i + 3, NonSpaceOf(s)) > i + 3
    THEN removeUrls(s, RunEnd(s, i + 3, NonSpaceOf(s)))
  ELSE IF HasAt(s, i, <<"h","t","t","p","s">>) /\ RunEnd(s, i + 5, NonSpaceOf(s)) > i + 5
    THEN removeUrls(s, RunEnd(s, i + 5, NonSpaceOf(s)))
  ELSE <<s[i]>> \o removeUrls(s, i + 1)

RECURSIVE removeMentions(_, _)
removeMentions(s, i) ==
  IF i > Len(s) THEN <<>>
  ELSE IF s[i] = "@" /\ RunEnd(s, i + 1, WordChars) > i + 1
    THEN removeMentions(s, RunEnd(s, i + 1, WordChars))
  ELSE <<s[i]>> \o removeMentions(s, i + 1)

\* .replace(/@\w+|#\w+/g, '')
RECURSIVE removeTags(_, _)
removeTags(s, i) ==
  IF i > Len(s) THEN <<>>
  ELSE IF s[i] \in {"@", "#"} /\ RunEnd(s, i + 1, WordChars) > i + 1
    THEN removeTags(s, RunEnd(s, i + 1, WordChars))
  ELSE <<s[i]>> \o removeTags(s, i + 1)

replaceSpecialDeletes(s) ==
  SelectSeq(s, LAMBDA c : c \in LowerLetters \cup WhiteSpace)

\* .replace(/[^a-z\s]/g, ' ')
replaceSpecial(s) ==
  [i \in 1..Len(s) |->
     IF s[i] \in LowerLetters \cup WhiteSpace THEN s[i] ELSE " "]

keepSpaces(s, i) == s

\* .replace(/\s+/g, ' ')
RECURSIVE collapseSpaces(_, _)
collapseSpaces(s, i) ==
  IF i > Len(s) THEN <<>>
  ELSE IF s[i] \in WhiteSpace
    THEN <<" ">> \o collapseSpaces(s, RunEnd(s, i, WhiteSpace))
  ELSE <<s[i]>> \o collapseSpaces(s, i + 1)

preprocessText(text) ==
  trim(collapseSpaces(replaceSpecial(removeTags(removeUrls(toLowerCase(text), 1), 1)), 1))

\* ------------------------------------------------------------ uploads
S_review  == <<"r","e","v","i","e","w">>
S_Review  == <<"R","e","v","i","e","w">>
S_REVIEW  == <<"R","E","V","I","E","W">>
S_reviews == <<"r","e","v","i","e","w","s">>
S_Reviews == <<"R","e","v","i","e","w","s">>
S_text    == <<"t","e","x","t">>
S_id      == <<"i","d">>

\* The header rows of the uploaded CSV files.
HeaderRows ==
  { <<S_review>>, <<S_Review>>, <<S_REVIEW>>, <<S_reviews>>, <<S_Reviews>>,
    <<S_text>>, <<S_id, S_Review>> }

\* The cells of the review column of the uploaded CSV files.
C_empty == <<>>
C_blank == <<" ", "\t">>
C_punct == <<"!", "?", "1">>
C_good  == <<"G","o","o","d","!">>
C_bad   == <<" ","s","o"," ","b","a","d">>
Cells == {C_empty, C_blank, C_punct, C_good, C_bad}

SeqsUpTo(S, n) == UNION {[1..k -> S] : k \in 0..n}

\* What Papa.parse(csvText, {header: true}) gives for a file whose header row is
\* hdr and whose last column holds cells: one object per data row.
ParsedRows(hdr, cells) ==
  [i \in 1..Len(cells) |->
     [h \in Range(hdr) |-> IF h = hdr[Len(hdr)] THEN cells[i] ELSE <<"7">>]]

\* A request to /api/analyze: req.file, and the result of Papa.parse on it.
Upload(hasFile, hasErrors, hdr, cells) ==
  [file |-> hasFile, errors |-> hasErrors, fields |-> hdr,
   data |-> ParsedRows(hdr, cells)]

NoUpload == Upload(FALSE, FALSE, <<>>, <<>>)

Uploads(n) ==
  {NoUpload}
  \cup {Upload(TRUE, TRUE, hdr, <<>>) : hdr \in {<<S_review>>}}
  \cup {Upload(TRUE, FALSE, hdr, cells) : hdr \in HeaderRows, cells \in SeqsUpTo(Cells, n)}

\* ------------------------------------------------------------ classifier
ScoreScale == 10000

L_negative == <<"n","e","g","a","t","i","v","e">>
L_neutral  == <<"n","e","u","t","r","a","l">>
L_positive == <<"p","o","s","i","t","i","v","e">>
L_Negative == <<"N","e","g","a","t","i","v","e">>
L_Positive == <<"P","o","s","i","t","i","v","e">>
L_NEGATIVE == <<"N","E","G","A","T","I","V","E">>
L_POSITIVE == <<"P","O","S","I","T","I","V","E">>
L_LABEL    == <<"L","A","B","E","L","_","1">>

Out(hasLabel, label, hasScore, score) ==
  [hasLabel |-> hasLabel, label |-> label, hasScore |-> hasScore, score |-> score]

\* What the 3-class pipeline can return for one text (result[0]).
Outputs3 ==
  { Out(TRUE, L_Negative, TRUE, 5500),  Out(TRUE, L_Positive, TRUE, 9200),
    Out(TRUE, L_positive, TRUE, 8000),  Out(TRUE, L_negative, TRUE, 7996),
    Out(TRUE, L_neutral,  TRUE, 6123),  Out(TRUE, L_LABEL,    TRUE, 9999),
    Out(FALSE, <<>>, FALSE, 0) }

\* What the 2-class fallback pipeline can return for one text.
Outputs2 ==
  { Out(TRUE, L_NEGATIVE, TRUE, 5500), Out(TRUE, L_POSITIVE, TRUE, 9200),
    Out(TRUE, L_POSITIVE, TRUE, 8000), Out(TRUE, L_NEGATIVE, TRUE, 10000),
    Out(TRUE, L_POSITIVE, TRUE, 7999) }

NoHandle == [model |-> "none", id |-> 0]
Handle(model, id) == [model |-> model, id |-> id]
OutputsOf(handle) == IF handle.model = "3class" THEN Outputs3 ELSE Outputs2

\* ------------------------------------------------------------ analyzeReviews, pure parts
NEUTRAL_SCORE_THRESHOLD == 8000
ContextLimit == 512

\* cleaned.slice(0, 512)
truncate(cleaned) == SubSeq(cleaned, 1, Min(Len(cleaned), ContextLimit))

\* result?.[0]?.label?.toLowerCase() || 'neutral'
labelOf(out) ==
  IF out.hasLabel /\ toLowerCase(out.label) # <<>> THEN toLowerCase(out.label) ELSE L_neutral

\* result?.[0]?.score ?? 0
scoreOf(out) == IF out.hasScore THEN out.score ELSE 0

mapLabelPosFirst(label) ==
  IF includes(label, <<"p","o","s">>) THEN "positive"
  ELSE IF includes(label, <<"n","e","u">>) THEN "neutral"
  ELSE IF includes(label, <<"n","e","g">>) THEN "negative"
  ELSE "neutral"

\* The if / else-if chain on label.includes(...).
mapLabel(label) ==
  IF includes(label, <<"n","e","g">>) THEN "negative"
  ELSE IF includes(label, <<"n","e","u">>) THEN "neutral"
  ELSE IF includes(label, <<"p","o","s">>) THEN "positive"
  ELSE "neutral"

applyThresholdLE(normalized, score) ==
  IF normalized # "neutral" /\ score <= NEUTRAL_SCORE_THRESHOLD THEN "neutral" ELSE normalized

\* if (normalized !== 'neutral' && score < NEUTRAL_SCORE_THRESHOLD) normalized = 'neutral'
applyThreshold(normalized, score) ==
  IF normalized # "neutral" /\ score < NEUTRAL_SCORE_THRESHOLD THEN "neutral" ELSE normalized

\* Math.round(x) for a rational x = num / den with den > 0, num >= 0: floor(x + 1/2).
mathRound(num, den) == (2 * num + den) \div (2 * den)

roundConfidenceUp(score) == (score * 1000 + ScoreScale - 1) \div ScoreScale

\* Math.round(score * 1000) / 1000, in thousandths.
roundConfidence(score) == mathRound(score * 1000, ScoreScale)

\* The record pushed for one classified review.
analyzedReview(review, cleaned, out) ==
  [originalReview |-> review,
   cleanedText |-> cleaned,
   sentiment |-> applyThreshold(mapLabel(labelOf(out)), scoreOf(out)),
   confidence |-> roundConfidence(scoreOf(out))]

pushFront(results, rec) == <<rec>> \o results

\* results.push(rec)
push(results, rec) == Append(results, rec)

\* The synchronous part of the for loop of analyzeReviews: the index of the
\* first review from position i on whose cleaned text is not empty
\* (Len(reviews) + 1 when the loop ends).
RECURSIVE nextToClassify(_, _)
nextToClassify(reviews, i) ==
  IF i > Len(reviews) THEN i
  ELSE IF preprocessText(reviews[i]) = <<>> THEN nextToClassify(reviews, i + 1)
  ELSE i

\* ------------------------------------------------------------ /api/analyze, pure parts
\* Object.keys(data[0] || {})
headersOf(upload) == IF Len(upload.data) = 0 THEN <<>> ELSE upload.fields

findReviewColumnExact(headers) ==
  LET hits == {i \in DOMAIN headers : headers[i] = S_review}
  IN  IF hits = {} THEN 0 ELSE CHOOSE i \in hits : \A j \in hits : i <= j

\* headers.find(h => h.toLowerCase() === 'review'): the position of the first
\* such header, 0 for undefined.
findReviewColumn(headers) ==
  LET hits == {i \in DOMAIN headers : toLowerCase(headers[i]) = S_review}
  IN  IF hits = {} THEN 0 ELSE CHOOSE i \in hits : \A j \in hits : i <= j

extractReviewsNoTrim(data, column) ==
  SelectSeq([i \in 1..Len(data) |-> data[i][column]], LAMBDA review : review # <<>>)

\* data.map(row => row[reviewColumn]).filter(review => review && review.trim() !== '')
extractReviews(data, column) ==
  SelectSeq([i \in 1..Len(data) |-> data[i][column]],
            LAMBDA review : review # <<>> /\ trim(review) # <<>>)

\* ------------------------------------------------------------ state
VARIABLES
  sentimentPipeline,  \* the module variable of the sentiment service
  loads,              \* every call of the external loader pipeline(...), in order
  apc,                \* per /api/analyze request: where its handler is suspended
  aupload,            \* per request: the uploaded file as parsed
  areviews,           \* per request: the reviews handed to analyzeReviews
  aload,              \* per request: the load it awaits (index into loads)
  apipe,              \* per request: const pipe of analyzeReviews
  aidx,               \* per request: position of the for loop of analyzeReviews
  aresults,           \* per request: const results of analyzeReviews
  alog,               \* per request: the classification calls it made, in order
  aresp,              \* per request: the HTTP response
  apiKey,             \* process.env.GEMINI_API_KEY is set
  rpc,                \* the /api/recommendations request: where it is suspended
  rbody,              \* req.body
  rreviews,           \* reviews of analyzeAndRecommend (reviewsToAnalyze)
  rsize,              \* chunkSize of analyzeAndRecommend
  rchunks,            \* chunks, as chunkArray builds it
  rci,                \* i of the loop of chunkArray
  ri,                 \* i of the loop of analyzeAndRecommend (0-based)
  rbatch,             \* batchResults
  rtrace,             \* the generateContent calls and the sleeps, in order
  rresp,              \* the HTTP response
  pfn,                \* a function applied on its own: its name
  pin,                \* its argument
  pout,               \* its result
  ppc,                \* "ready" before the call, "done" after it
  upc,                \* the Analyze page: "mounted", or "none" when it is not open
  analysisResults,    \* useState(null): 0 for null, else the upload whose response is shown
  loading,            \* useState(false)
  uerror,             \* error of useState(null): "" for null, else the message
  uflight,            \* the uploads whose axios.post has not returned
  udrops,             \* drops so far
  uresets,            \* clicks on a reset button so far
  ulog                \* the handlers of the page called so far, in order

analyzeVars ==
  <<sentimentPipeline, loads, apc, aupload, areviews, aload, apipe, aidx,
    aresults, alog, aresp>>

recVars ==
  <<apiKey, rpc, rbody, rreviews, rsize, rchunks, rci, ri, rbatch, rtrace, rresp>>

pureVars == <<pfn, pin, pout, ppc>>

pageVars == <<upc, analysisResults, loading, uerror, uflight, udrops, uresets, ulog>>

vars == <<analyzeVars, recVars, pureVars, pageVars>>

\* What an action of /api/analyze leaves alone, and one of /api/recommendations.
notAnalyze == <<recVars, pureVars, pageVars>>
notRecommend == <<analyzeVars, pureVars, pageVars>>
notPure == <<analyzeVars, recVars, pageVars>>
notPage == <<analyzeVars, recVars, pureVars>>

Req == 1..NumReq

NoResponse ==
  [status |-> 0, success |-> FALSE, error |-> "", message |-> "",
   totalReviews |-> 0, results |-> <<>>, availableColumns |-> <<>>]

\* res.status(code).json({error, ...})
ErrorResponse(code, error, message, columns) ==
  [NoResponse EXCEPT !.status = code, !.error = error, !.message = message,
                     !.availableColumns = columns]

\* res.json({success: true, totalReviews: reviews.length, results})
AnalysisResult(reviews, results) ==
  [NoResponse EXCEPT !.status = 200, !.success = TRUE,
                     !.totalReviews = Len(reviews), !.results = results]

\* The uploads of requests that run concurrently: the first two have one review
\* to classify, the others only wait for the model (their one review is empty
\* after cleaning).
ConcUpload(r) ==
  IF r = 1 THEN Upload(TRUE, FALSE, <<S_review>>, <<C_good>>)
  ELSE IF r = 2 THEN Upload(TRUE, FALSE, <<S_REVIEW>>, <<C_punct, C_bad>>)
  ELSE Upload(TRUE, FALSE, <<S_Review>>, <<C_punct>>)

needsLoadAlways(handle) == TRUE

\* if (!sentimentPipeline)
needsLoad(handle) == handle = NoHandle

\* The for loop of analyzeReviews from position i on, up to its next await
\* (the classification of a review) or to the return of analyzeReviews, which
\* resumes the handler: res.json({success: true, ...}).
ContinueLoop(r, reviews, results, i) ==
  LET j == nextToClassify(reviews, i)
  IN  /\ aidx' = [aidx EXCEPT ![r] = j]
      /\ aresults' = [aresults EXCEPT ![r] = results]
      /\ IF j <= Len(reviews)
           THEN /\ apc' = [apc EXCEPT ![r] = "classify"]
                /\ aresp' = aresp
           ELSE /\ apc' = [apc EXCEPT ![r] = "done"]
                /\ aresp' = [aresp EXCEPT ![r] = AnalysisResult(reviews, results)]

\* The handler answers without calling analyzeReviews.
Reject(r, response) ==
  /\ apc' = [apc EXCEPT ![r] = "done"]
  /\ aresp' = [aresp EXCEPT ![r] = response]
  /\ UNCHANGED <<sentimentPipeline, loads, areviews, aload, apipe, aidx, aresults, alog>>

\* pipeline('sentiment-analysis', model) is called for request r.
StartLoad(r, model) ==
  /\ loads' = Append(loads, [req |-> r, model |-> model, status |-> "pending"])
  /\ aload' = [aload EXCEPT ![r] = Len(loads) + 1]

\* ------------------------------------------------------------ POST /api/analyze
\* The handler up to its first await: validation, then analyzeReviews up to
\* the load of the model or, with the model cached, the first classification.
AnalyzeRequest(r) ==
  /\ apc[r] = "idle"
  /\ LET upload  == aupload[r]
         headers == headersOf(upload)
         column  == findReviewColumn(headers)
         reviews == extractReviews(upload.data, headers[column])
     IN  IF ~upload.file
           THEN Reject(r, ErrorResponse(400, "No file uploaded", "", <<>>))
         ELSE IF upload.errors
           THEN Reject(r, ErrorResponse(400, "Invalid CSV format", "", <<>>))
         ELSE IF column = 0
           THEN Reject(r, ErrorResponse(400, "CSV must contain a review column", "", headers))
         ELSE IF Len(reviews) = 0
           THEN Reject(r, ErrorResponse(400, "No valid reviews found in CSV", "", <<>>))
         ELSE /\ areviews' = [areviews EXCEPT ![r] = reviews]
              /\ IF needsLoad(sentimentPipeline)
                   THEN /\ StartLoad(r, "3class")
                        /\ apc' = [apc EXCEPT ![r] = "load3"]
                        /\ UNCHANGED <<apipe, aidx, aresults, aresp>>
                   ELSE /\ apipe' = [apipe EXCEPT ![r] = sentimentPipeline]
                        /\ ContinueLoop(r, reviews, <<>>, 1)
                        /\ UNCHANGED <<loads, aload>>
              /\ UNCHANGED <<sentimentPipeline, alog>>
  /\ UNCHANGED <<aupload, notAnalyze>>

\* The load request r awaits resolves: sentimentPipeline = await pipeline(...),
\* return sentimentPipeline, and analyzeReviews runs to its first classification.
LoadResolves(r) ==
  LET handle == Handle(loads[aload[r]].model, aload[r])
  IN  /\ loads' = [loads EXCEPT ![aload[r]].status = "ok"]
      /\ sentimentPipeline' = handle
      /\ apipe' = [apipe EXCEPT ![r] = handle]
      /\ ContinueLoop(r, areviews[r], <<>>, 1)
      /\ UNCHANGED <<aupload, areviews, aload, alog, notAnalyze>>

Load3Resolves(r) ==
  /\ apc[r] = "load3"
  /\ LoadResolves(r)

Load3RejectsFails(r) ==
  /\ apc[r] = "load3"
  /\ loads' = [loads EXCEPT ![aload[r]].status = "failed"]
  /\ apc' = [apc EXCEPT ![r] = "done"]
  /\ aresp' = [aresp EXCEPT ![r] =
                 ErrorResponse(500, "Failed to analyze reviews", "load failed", <<>>)]
  /\ UNCHANGED <<sentimentPipeline, aupload, areviews, aload, apipe, aidx,
                 aresults, alog, notAnalyze>>

\* The 3-class load rejects: the catch block starts the 2-class load.
Load3Rejects(r) ==
  /\ apc[r] = "load3"
  /\ loads' = Append([loads EXCEPT ![aload[r]].status = "failed"],
                     [req |-> r, model |-> "2class", status |-> "pending"])
  /\ aload' = [aload EXCEPT ![r] = Len(loads) + 1]
  /\ apc' = [apc EXCEPT ![r] = "load2"]
  /\ UNCHANGED <<sentimentPipeline, aupload, areviews, apipe, aidx, aresults,
                 alog, aresp, notAnalyze>>

Load2Resolves(r) ==
  /\ apc[r] = "load2"
  /\ LoadResolves(r)

Load2RejectsMemoizes(r) ==
  /\ apc[r] = "load2"
  /\ loads' = [loads EXCEPT ![aload[r]].status = "failed"]
  /\ sentimentPipeline' = Handle("2class", aload[r])
  /\ apc' = [apc EXCEPT ![r] = "done"]
  /\ aresp' = [aresp EXCEPT ![r] =
                 ErrorResponse(500, "Failed to analyze reviews", "load failed", <<>>)]
  /\ UNCHANGED <<aupload, areviews, aload, apipe, aidx, aresults, alog, notAnalyze>>

\* The 2-class load rejects too: initPipeline and analyzeReviews reject and the
\* catch block of the handler answers 500.
Load2Rejects(r) ==
  /\ apc[r] = "load2"
  /\ loads' = [loads EXCEPT ![aload[r]].status = "failed"]
  /\ apc' = [apc EXCEPT ![r] = "done"]
  /\ aresp' = [aresp EXCEPT ![r] =
                 ErrorResponse(500, "Failed to analyze reviews", "load failed", <<>>)]
  /\ UNCHANGED <<sentimentPipeline, aupload, areviews, aload, apipe, aidx,
                 aresults, alog, notAnalyze>>

LogCall(r, threw, out) ==
  alog' = [alog EXCEPT ![r] =
             Append(@, [idx |-> aidx[r],
                        text |-> truncate(preprocessText(areviews[r][aidx[r]])),
                        handle |-> apipe[r], threw |-> threw, out |-> out])]

\* await pipe(truncated) resolves with out: the record is pushed and the loop
\* goes on.
ClassifyResolves(r) ==
  /\ apc[r] = "classify"
  /\ \E out \in OutputsOf(apipe[r]) :
       LET review  == areviews[r][aidx[r]]
           cleaned == preprocessText(review)
       IN  /\ LogCall(r, FALSE, out)
           /\ ContinueLoop(r, areviews[r],
                           push(aresults[r], analyzedReview(review, cleaned, out)),
                           aidx[r] + 1)
  /\ UNCHANGED <<sentimentPipeline, loads, aupload, areviews, aload, apipe, notAnalyze>>

ClassifyRejectsAborts(r) ==
  /\ apc[r] = "classify"
  /\ LogCall(r, TRUE, Out(FALSE, <<>>, FALSE, 0))
  /\ apc' = [apc EXCEPT ![r] = "done"]
  /\ aresp' = [aresp EXCEPT ![r] =
                 ErrorResponse(500, "Failed to analyze reviews", "classify failed", <<>>)]
  /\ UNCHANGED <<sentimentPipeline, loads, aupload, areviews, aload, apipe,
                 aidx, aresults, notAnalyze>>

\* await pipe(truncated) rejects: catch (error) { continue; }
ClassifyRejects(r) ==
  /\ apc[r] = "classify"
  /\ LogCall(r, TRUE, Out(FALSE, <<>>, FALSE, 0))
  /\ ContinueLoop(r, areviews[r], aresults[r], aidx[r] + 1)
  /\ UNCHANGED <<sentimentPipeline, loads, aupload, areviews, aload, apipe, notAnalyze>>

NextAnalyze ==
  \E r \in Req :
    \/ AnalyzeRequest(r)
    \/ Load3Resolves(r)
    \/ Load3Rejects(r)
    \/ Load2Resolves(r)
    \/ Load2Rejects(r)
    \/ ClassifyResolves(r)
    \/ ClassifyRejects(r)

\* No request has been handled, no model is loaded.
InitAnalyzeState ==
  /\ sentimentPipeline = NoHandle
  /\ loads = <<>>
  /\ areviews = [r \in Req |-> <<>>]
  /\ aload = [r \in Req |-> 0]
  /\ apipe = [r \in Req |-> NoHandle]
  /\ aidx = [r \in Req |-> 0]
  /\ aresults = [r \in Req |-> <<>>]
  /\ alog = [r \in Req |-> <<>>]
  /\ aresp = [r \in Req |-> NoResponse]

\* One request with any upload, or all the requests in flight together.
InitAnalyze ==
  /\ \/ \E u \in Uploads(MaxRows) :
          aupload = [r \in Req |-> IF r = 1 THEN u ELSE NoUpload]
     \/ aupload = [r \in Req |-> ConcUpload(r)]
  /\ apc = [r \in Req |-> IF aupload[r] = NoUpload /\ r > 1 THEN "none" ELSE "idle"]
  /\ InitAnalyzeState

\* ------------------------------------------------------------ texts
\* A text is a sequence of tokens; a token is a literal piece of text t with a
\* number n interpolated after it (0 when there is none).
Tok(t, n) == [t |-> t, n |-> n]

\* response.text() of the generateContent call that is entry k of rtrace.
GeneratedText(k) == <<Tok("generated by call ", k)>>

\* `Error processing batch ${i + 1}: ${error.message}`
Placeholder(i, message) == <<Tok("Error processing batch ", i + 1), Tok(message, 0)>>

Divider == Tok("\n\n---\n\n", 0)

\* Array.prototype.join on texts.
RECURSIVE join(_, _)
join(texts, separator) ==
  IF Len(texts) = 0 THEN <<>>
  ELSE IF Len(texts) = 1 THEN texts[1]
  ELSE texts[1] \o <<separator>> \o join(Tail(texts), separator)

CannedRecommendation == <<Tok("All reviews are positive! Keep up the great work!", 0)>>

\* The messages of the errors the generative capability throws.
ErrorMessages == {"quota exceeded", "blocked"}

\* ------------------------------------------------------------ request bodies
DefaultMaxReviews == 100
DefaultChunkSize == 50
SleepMs == 1000

Absent == [given |-> FALSE, value |-> 0]
Given(v) == [given |-> TRUE, value |-> v]

Reviews(n) == [i \in 1..n |-> i]

Body(kind, reviews, maxReviews, chunkSize) ==
  [kind |-> kind, negativeReviews |-> reviews, maxReviews |-> maxReviews,
   chunkSize |-> chunkSize]

Params == {Absent} \cup {Given(v) : v \in -1..MaxParam}

\* The example of the specification: 120 reviews in chunks of 50.
ExampleBody == Body("array", Reviews(120), Given(120), Absent)

Bodies ==
  {Body(kind, <<>>, Absent, Absent) : kind \in {"missing", "notArray"}}
  \cup {Body("array", Reviews(n), m, c) : n \in 0..MaxNeg, m \in Params, c \in Params}
  \cup {ExampleBody}

\* const { maxReviews = 100, chunkSize = 50 } = req.body
orDefault(param, default) == IF param.given THEN param.value ELSE default

\* Array.prototype.slice(start, end) on a sequence (positions are 0-based).
jsSlice(array, start, end) ==
  LET len  == Len(array)
      from == IF start < 0 THEN Max(len + start, 0) ELSE Min(start, len)
      to   == IF end < 0 THEN Max(len + end, 0) ELSE Min(end, len)
  IN  SubSeq(array, from + 1, to)

\* ------------------------------------------------------------ analyzeAndRecommend
NoRecResponse ==
  [status |-> 0, success |-> FALSE, error |-> "", message |-> "",
   hasCount |-> FALSE, analyzedCount |-> 0, recommendations |-> <<>>]

RecError(code, error, message) ==
  [NoRecResponse EXCEPT !.status = code, !.error = error, !.message = message]

\* res.json({success: true, message, recommendations}) of the empty list.
RecCanned ==
  [NoRecResponse EXCEPT !.status = 200, !.success = TRUE,
                        !.message = "No negative reviews to analyze",
                        !.recommendations = CannedRecommendation]

\* res.json({success: true, analyzedCount, recommendations})
RecReport(count, text) ==
  [NoRecResponse EXCEPT !.status = 200, !.success = TRUE, !.hasCount = TRUE,
                        !.analyzedCount = count, !.recommendations = text]

Event(ev, batch, reviews, batches, ms) ==
  [ev |-> ev, batch |-> batch, reviews |-> reviews, batches |-> batches,
   ms |-> ms, outcome |-> "pending", err |-> ""]

\* model.generateContent(prompt) for chunk i (0-based): the prompt lists chunks[i].
ChunkCall(i) == Event("chunk", i + 1, rchunks[i + 1], <<>>, 0)
\* model.generateContent(finalPrompt): the prompt lists batchResults.
FinalCall(batchResults) == Event("final", 0, <<>>, batchResults, 0)
\* sleep(1000)
Sleep == Event("sleep", 0, <<>>, <<>>, SleepMs)

Settle(trace, outcome, err) ==
  [trace EXCEPT ![Len(trace)].outcome = outcome, ![Len(trace)].err = err]

needsPauseAlways(i, n) == i < n

\* if (i < chunks.length - 1)
needsPause(i, n) == i < n - 1

isConfiguredAlways(key) == TRUE

\* if (!process.env.GEMINI_API_KEY) throw new Error(...)
isConfigured(key) == key

isInvalidNever(body) == FALSE

\* if (!negativeReviews || !Array.isArray(negativeReviews))
isInvalid(body) == body.kind # "array"

isEmptyNever(negativeReviews) == FALSE

\* if (negativeReviews.length === 0)
isEmpty(negativeReviews) == Len(negativeReviews) = 0

\* The loop of analyzeAndRecommend reaches iteration i with batchResults and
\* the trace as given: it calls the model for chunk i, or leaves the loop and
\* calls the model for the final summary.
EnterIteration(i, batchResults, trace) ==
  /\ ri' = i
  /\ rbatch' = batchResults
  /\ IF i < Len(rchunks)
       THEN /\ rpc' = "chunkCall"
            /\ rtrace' = Append(trace, ChunkCall(i))
       ELSE /\ rpc' = "finalCall"
            /\ rtrace' = Append(trace, FinalCall(batchResults))

AfterChunkNoAwait(batchResults, trace) ==
  IF needsPause(ri, Len(rchunks))
    THEN EnterIteration(ri + 1, batchResults, Append(trace, Sleep))
    ELSE EnterIteration(ri + 1, batchResults, trace)

\* After the try/catch of iteration i: the pause, or the next iteration.
AfterChunk(batchResults, trace) ==
  IF needsPause(ri, Len(rchunks))
    THEN /\ rpc' = "sleep"
         /\ rtrace' = Append(trace, Sleep)
         /\ rbatch' = batchResults
         /\ ri' = ri
    ELSE EnterIteration(ri + 1, batchResults, trace)

\* The handler of POST /api/recommendations up to the loop of chunkArray.
RecommendRequest ==
  /\ rpc = "idle"
  /\ LET maxReviews == orDefault(rbody.maxReviews, DefaultMaxReviews)
         chunkSize  == orDefault(rbody.chunkSize, DefaultChunkSize)
         reviewsToAnalyze == jsSlice(rbody.negativeReviews, 0, maxReviews)
     IN  IF isInvalid(rbody)
           THEN /\ rpc' = "done"
                /\ rresp' = RecError(400, "Invalid request: negativeReviews array required", "")
                /\ UNCHANGED <<rreviews, rsize>>
         ELSE IF isEmpty(rbody.negativeReviews)
           THEN /\ rpc' = "done"
                /\ rresp' = RecCanned
                /\ UNCHANGED <<rreviews, rsize>>
         ELSE /\ rreviews' = reviewsToAnalyze
              /\ rsize' = chunkSize
              /\ IF ~isConfigured(apiKey)
                   THEN /\ rpc' = "done"
                        /\ rresp' = RecError(500, "Failed to generate recommendations",
                                             "GEMINI_API_KEY not configured in environment variables")
                   ELSE /\ rpc' = "chunking"
                        /\ rresp' = rresp
  /\ UNCHANGED <<apiKey, rbody, rchunks, rci, ri, rbatch, rtrace, notRecommend>>

ChunkArrayStepOverlap ==
  /\ rpc = "chunking"
  /\ rci < Len(rreviews)
  /\ rsize >= 1 \/ Len(rchunks) < MaxLoop
  /\ rchunks' = Append(rchunks, jsSlice(rreviews, rci, rci + rsize + 1))
  /\ rci' = rci + rsize
  /\ UNCHANGED <<apiKey, rpc, rbody, rreviews, rsize, ri, rbatch, rtrace, rresp, notRecommend>>

\* One iteration of the loop of chunkArray.
ChunkArrayStep ==
  /\ rpc = "chunking"
  /\ rci < Len(rreviews)
  /\ rsize >= 1 \/ Len(rchunks) < MaxLoop
  /\ rchunks' = Append(rchunks, jsSlice(rreviews, rci, rci + rsize))
  /\ rci' = rci + rsize
  /\ UNCHANGED <<apiKey, rpc, rbody, rreviews, rsize, ri, rbatch, rtrace, rresp, notRecommend>>

\* chunkArray returns and the loop over the chunks starts.
ChunkArrayReturns ==
  /\ rpc = "chunking"
  /\ rci >= Len(rreviews)
  /\ EnterIteration(0, <<>>, rtrace)
  /\ UNCHANGED <<apiKey, rbody, rreviews, rsize, rchunks, rci, rresp, notRecommend>>

\* The call for chunk ri resolves: batchResults.push(response.text()).
ChunkResolves ==
  /\ rpc = "chunkCall"
  /\ AfterChunk(Append(rbatch, GeneratedText(Len(rtrace))), Settle(rtrace, "ok", ""))
  /\ UNCHANGED <<apiKey, rbody, rreviews, rsize, rchunks, rci, rresp, notRecommend>>

ChunkRejectsSkips ==
  /\ rpc = "chunkCall"
  /\ \E message \in ErrorMessages :
       AfterChunk(rbatch, Settle(rtrace, "threw", message))
  /\ UNCHANGED <<apiKey, rbody, rreviews, rsize, rchunks, rci, rresp, notRecommend>>

\* The call for chunk ri throws: the catch block pushes the placeholder.
ChunkRejects ==
  /\ rpc = "chunkCall"
  /\ \E message \in ErrorMessages :
       AfterChunk(Append(rbatch, Placeholder(ri, message)),
                  Settle(rtrace, "threw", message))
  /\ UNCHANGED <<apiKey, rbody, rreviews, rsize, rchunks, rci, rresp, notRecommend>>

\* sleep(1000) resolves: i++ and the next iteration.
SleepResolves ==
  /\ rpc = "sleep"
  /\ EnterIteration(ri + 1, rbatch, Settle(rtrace, "ok", ""))
  /\ UNCHANGED <<apiKey, rbody, rreviews, rsize, rchunks, rci, rresp, notRecommend>>

\* The final call resolves: analyzeAndRecommend returns its text and the
\* handler answers.
FinalResolves ==
  /\ rpc = "finalCall"
  /\ rtrace' = Settle(rtrace, "ok", "")
  /\ rpc' = "done"
  /\ rresp' = RecReport(Len(rreviews), GeneratedText(Len(rtrace)))
  /\ UNCHANGED <<apiKey, rbody, rreviews, rsize, rchunks, rci, ri, rbatch, notRecommend>>

FinalRejectsThrows ==
  /\ rpc = "finalCall"
  /\ \E message \in ErrorMessages :
       /\ rtrace' = Settle(rtrace, "threw", message)
       /\ rresp' = RecError(500, "Failed to generate recommendations", message)
  /\ rpc' = "done"
  /\ UNCHANGED <<apiKey, rbody, rreviews, rsize, rchunks, rci, ri, rbatch, notRecommend>>

\* The final call throws: return batchResults.join('\n\n---\n\n').
FinalRejects ==
  /\ rpc = "finalCall"
  /\ \E message \in ErrorMessages : rtrace' = Settle(rtrace, "threw", message)
  /\ rpc' = "done"
  /\ rresp' = RecReport(Len(rreviews), join(rbatch, Divider))
  /\ UNCHANGED <<apiKey, rbody, rreviews, rsize, rchunks, rci, ri, rbatch, notRecommend>>

NextRecommend ==
  \/ RecommendRequest
  \/ ChunkArrayStep
  \/ ChunkArrayReturns
  \/ ChunkResolves
  \/ ChunkRejects
  \/ SleepResolves
  \/ FinalResolves
  \/ FinalRejects

InitRecommendState ==
  /\ rreviews = <<>>
  /\ rsize = 0
  /\ rchunks = <<>>
  /\ rci = 0
  /\ ri = 0
  /\ rbatch = <<>>
  /\ rtrace = <<>>
  /\ rresp = NoRecResponse

InitRecommend ==
  /\ apiKey \in BOOLEAN
  /\ rbody \in Bodies
  /\ rpc = "idle"
  /\ InitRecommendState

\* ------------------------------------------------------------ specifications
\* No request of the other endpoint.
NoAnalyze ==
  /\ aupload = [r \in Req |-> NoUpload]
  /\ InitAnalyzeState
  /\ apc = [r \in Req |-> "none"]

NoRecommend ==
  /\ apiKey = TRUE
  /\ rbody = Body("missing", <<>>, Absent, Absent)
  /\ rpc = "none"
  /\ InitRecommendState

\* ------------------------------------------------------------ functions on their own
\* The characters of the texts preprocessText is applied to.
TextChars == {"a", "w", "Z", "7", "!", "#", " ", "\t"}

T_example ==
  <<"H","i","!"," ","@","b","o","b"," ","#","g","r","e","a","t"," ",
    "h","t","t","p",":","/","/","x",".","c","o">>
T_url == <<"s","e","e"," ","W","W","W",".","x",".","c","o"," ","n","o","w">>
T_http == <<"h","t","t","p"," ","@"," ","o","k","_","1">>
T_digit == <<"a","1","b">>

Texts == SeqsUpTo(TextChars, MaxLen) \cup {T_example, T_url, T_http, T_digit}

\* preprocessText(text) is called.
ApplyPreprocessText ==
  /\ ppc = "ready"
  /\ pfn = "preprocessText"
  /\ pout' = preprocessText(pin)
  /\ ppc' = "done"
  /\ UNCHANGED <<pfn, pin, notPure>>

\* Labels a classifier can return: the labels of the two models, in any case,
\* and labels that contain none or several of neg, neu and pos.
L_NEUtral == <<"N","E","U","t","r","a","l">>
L_posneg  == <<"p","o","s","n","e","g">>
L_NeuPos  == <<"N","e","u","P","o","s">>
L_negneu  == <<"n","e","g","n","e","u">>
L_xPOSx   == <<"x","P","O","S","x">>
L_ne      == <<"n","e">>
L_empty   == <<>>

Labels ==
  {L_negative, L_neutral, L_positive, L_Negative, L_Positive, L_NEGATIVE,
   L_POSITIVE, L_LABEL, L_NEUtral, L_posneg, L_NeuPos, L_negneu, L_xPOSx,
   L_ne, L_empty}

Scores == {0, 5500, 7999, 8000, 9200, ScoreScale}

\* result[0] of any shape: with or without a label, with or without a score.
ClassifierOutputs ==
  {Out(TRUE, label, TRUE, score) : label \in Labels, score \in Scores}
  \cup {Out(TRUE, label, FALSE, 0) : label \in Labels}
  \cup {Out(FALSE, <<>>, TRUE, score) : score \in Scores}
  \cup {Out(FALSE, <<>>, FALSE, 0)}

\* The label mapping of analyzeReviews is applied to one output of the
\* classifier: label, normalized after the if chain, normalized after the
\* threshold.
ApplyMapLabel ==
  /\ ppc = "ready"
  /\ pfn = "mapLabel"
  /\ pout' = [label      |-> labelOf(pin),
              normalized |-> mapLabel(labelOf(pin)),
              sentiment  |-> analyzedReview(<<>>, <<>>, pin).sentiment]
  /\ ppc' = "done"
  /\ UNCHANGED <<pfn, pin, notPure>>

\* result[0] with every score from 0 to 1 in steps of 1 / ScoreScale, and
\* without a score.
ScoredOutputs ==
  {Out(TRUE, L_positive, TRUE, score) : score \in 0..ScoreScale}
  \cup {Out(TRUE, L_positive, FALSE, 0)}

\* The confidence analyzeReviews stores for one output of the classifier.
ApplyConfidence ==
  /\ ppc = "ready"
  /\ pfn = "confidence"
  /\ pout' = analyzedReview(<<>>, <<>>, pin).confidence
  /\ ppc' = "done"
  /\ UNCHANGED <<pfn, pin, notPure>>

NextPure ==
  \/ ApplyPreprocessText
  \/ ApplyMapLabel
  \/ ApplyConfidence

InitPure ==
  /\ \/ pfn = "preprocessText" /\ pin \in Texts
     \/ pfn = "mapLabel" /\ pin \in ClassifierOutputs
     \/ pfn = "confidence" /\ pin \in ScoredOutputs
  /\ pout = <<>>
  /\ ppc = "ready"

NoPure ==
  /\ pfn = "none"
  /\ pin = <<>>
  /\ pout = <<>>
  /\ ppc = "none"

\* ------------------------------------------------------------ the Analyze page
\* The messages handleError is called with: the ones of FileUpload and the
\* error field of a 4xx / 5xx answer of /api/analyze.
UploadErrors ==
  {"Failed to analyze file. Please check your file format and try again.",
   "CSV must contain a review column", "Failed to analyze reviews"}

Called(handler, upload) == [handler |-> handler, upload |-> upload]

handleAnalysisCompleteKeepsError(results) ==
  /\ analysisResults' = results
  /\ uerror' = uerror

\* setAnalysisResults(results); setError(null);
handleAnalysisComplete(results) ==
  /\ analysisResults' = results
  /\ uerror' = ""

\* setError(errorMessage); setAnalysisResults(null);
handleError(errorMessage) ==
  /\ uerror' = errorMessage
  /\ analysisResults' = 0

\* setAnalysisResults(null); setError(null); setLoading(false);
handleReset ==
  /\ analysisResults' = 0
  /\ uerror' = ""
  /\ loading' = FALSE

\* FileUpload is rendered when there are no results, and its dropzone is
\* disabled while loading.
CanDrop == upc = "mounted" /\ analysisResults = 0 /\ ~loading /\ udrops < MaxDrops

\* onDrop with no accepted file: onError('No file selected'); return.
DropNothing ==
  /\ CanDrop
  /\ handleError("No file selected")
  /\ udrops' = udrops + 1
  /\ ulog' = Append(ulog, Called("handleError", 0))
  /\ UNCHANGED <<upc, loading, uflight, uresets, notPage>>

\* onDrop with a file, up to its await: setLoading(true) and axios.post.
DropFile ==
  /\ CanDrop
  /\ loading' = TRUE
  /\ uflight' = uflight \cup {udrops + 1}
  /\ udrops' = udrops + 1
  /\ UNCHANGED <<upc, analysisResults, uerror, uresets, ulog, notPage>>

\* The post of an upload resolves with success: true, then the finally block.
RespondSuccess(upload) ==
  /\ upload \in uflight
  /\ handleAnalysisComplete(upload)
  /\ loading' = FALSE
  /\ uflight' = uflight \ {upload}
  /\ ulog' = Append(ulog, Called("handleAnalysisComplete", upload))
  /\ UNCHANGED <<upc, udrops, uresets, notPage>>

\* The post resolves without success: onError('Analysis failed. ...').
RespondFailure(upload) ==
  /\ upload \in uflight
  /\ handleError("Analysis failed. Please try again.")
  /\ loading' = FALSE
  /\ uflight' = uflight \ {upload}
  /\ ulog' = Append(ulog, Called("handleError", upload))
  /\ UNCHANGED <<upc, udrops, uresets, notPage>>

\* The post rejects: the catch block calls onError with the message of the
\* server or the fallback one, then the finally block.
RespondError(upload) ==
  /\ upload \in uflight
  /\ \E errorMessage \in UploadErrors : handleError(errorMessage)
  /\ loading' = FALSE
  /\ uflight' = uflight \ {upload}
  /\ ulog' = Append(ulog, Called("handleError", upload))
  /\ UNCHANGED <<upc, udrops, uresets, notPage>>

\* A click on Try Again (shown with the error) or on Upload New File (shown
\* with the results).
ClickReset ==
  /\ upc = "mounted"
  /\ uerror # "" \/ analysisResults # 0
  /\ uresets < MaxResets
  /\ handleReset
  /\ uresets' = uresets + 1
  /\ ulog' = Append(ulog, Called("handleReset", 0))
  /\ UNCHANGED <<upc, uflight, udrops, notPage>>

NextPage ==
  \/ DropNothing
  \/ DropFile
  \/ \E upload \in 1..MaxDrops :
       \/ RespondSuccess(upload)
       \/ RespondFailure(upload)
       \/ RespondError(upload)
  \/ ClickReset

PageState ==
  /\ analysisResults = 0
  /\ loading = FALSE
  /\ uerror = ""
  /\ uflight = {}
  /\ udrops = 0
  /\ uresets = 0
  /\ ulog = <<>>

InitPage == upc = "mounted" /\ PageState
NoPage == upc = "none" /\ PageState

\* Requests of one endpoint only, or one function on its own, or the page.
InitAnalyzeOnly == InitAnalyze /\ NoRecommend /\ NoPure /\ NoPage
InitRecommendOnly == NoAnalyze /\ InitRecommend /\ NoPure /\ NoPage
InitPureOnly == NoAnalyze /\ NoRecommend /\ InitPure /\ NoPage
InitPageOnly == NoAnalyze /\ NoRecommend /\ NoPure /\ InitPage

Init == InitAnalyzeOnly \/ InitRecommendOnly \/ InitPureOnly \/ InitPageOnly

Next == NextAnalyze \/ NextRecommend \/ NextPure \/ NextPage

\* The whole backend.
Spec == Init /\ [][Next]_vars

\* POST /api/analyze and the sentiment service.
SpecAnalyze == InitAnalyzeOnly /\ [][NextAnalyze]_vars

\* POST /api/recommendations and the Gemini service.
SpecRecommend == InitRecommendOnly /\ [][NextRecommend]_vars

\* The pure functions of the services, each applied to the inputs of a bounded set.
SpecPure == InitPureOnly /\ [][NextPure]_vars

\* The Analyze page of the frontend.
SpecPage == InitPageOnly /\ [][NextPage]_vars

\* The event loop runs every continuation that is ready, and every external
\* call and every pause returns or throws in the end.
SpecRecommendFair ==
  InitRecommendOnly /\ [][NextRecommend]_vars /\ WF_vars(NextRecommend)

\* ------------------------------------------------------------ helpers of the properties
\* The subsequence of seq at the positions in S, in increasing order.
Restrict(seq, S) ==
  LET positions == SelectSeq([k \in 1..Len(seq) |-> k], LAMBDA k : k \in S)
  IN  [k \in 1..Len(positions) |-> seq[positions[k]]]

Originals(results) == [k \in 1..Len(results) |-> results[k].originalReview]

\* The classification calls of request r that returned, in order.
Returned(r) == SelectSeq(alog[r], LAMBDA e : ~e.threw)
\* The positions of the reviews whose classification threw.
Thrown(r) == {e.idx : e \in {x \in Range(alog[r]) : x.threw}}

\* The cell of the review column of row i of an upload (its last column).
ReviewCell(upload, i) == upload.data[i][upload.fields[Len(upload.fields)]]
NonBlank(cell) == \E k \in DOMAIN cell : cell[k] \notin WhiteSpace

PendingLoads(model) ==
  {k \in DOMAIN loads : loads[k].model = model /\ loads[k].status = "pending"}

\* ------------------------------------------------------------ claims, /api/analyze
\* C1: single-flight classifier load. While requests wait in initPipeline, at
\* most one load of the 3-class model is in flight, and the requests that
\* waited for a load hold the same handle.
C1_SingleFlight ==
  /\ Cardinality(PendingLoads("3class")) <= 1
  /\ \A r1, r2 \in Req :
       (aload[r1] # 0 /\ aload[r2] # 0 /\ apipe[r1] # NoHandle /\ apipe[r2] # NoHandle)
         => apipe[r1] = apipe[r2]

\* C5: threshold policy. A positive or negative mapped label with a score
\* strictly below 0.80 is stored as neutral; with a score of 0.80 or more the
\* mapped label is stored; the stored confidence is the score of the classifier
\* to three decimals either way (Negative 0.55 -> neutral 0.55, Positive 0.92
\* -> positive 0.92).
C5_ThresholdPolicy ==
  \A r \in Req : \A k \in 1..Len(aresults[r]) :
    LET out    == Returned(r)[k].out
        rec    == aresults[r][k]
        mapped == mapLabel(labelOf(out))
        score  == scoreOf(out)
    IN  /\ Len(Returned(r)) = Len(aresults[r])
        /\ (mapped \in {"positive", "negative"} /\ score < 8 * (ScoreScale \div 10))
             => rec.sentiment = "neutral"
        /\ score >= 8 * (ScoreScale \div 10) => rec.sentiment = mapped
        /\ 2 * (rec.confidence * ScoreScale - 1000 * score) <= ScoreScale
        /\ 2 * (1000 * score - rec.confidence * ScoreScale) <= ScoreScale
        /\ out = Out(TRUE, L_Negative, TRUE, 5500)
             => rec.sentiment = "neutral" /\ rec.confidence = 550
        /\ out = Out(TRUE, L_Positive, TRUE, 9200)
             => rec.sentiment = "positive" /\ rec.confidence = 920

\* A batch with an overridden record and a record kept at exactly 0.80.
C5_Witness ==
  \E r \in Req : \E j, k \in 1..Len(aresults[r]) :
    /\ Returned(r)[j].out = Out(TRUE, L_Negative, TRUE, 5500)
    /\ aresults[r][j].sentiment = "neutral"
    /\ Returned(r)[k].out.score = 8000
    /\ aresults[r][k].sentiment = "positive"

\* C6: the results of analyzeReviews are an order-preserving subsequence of
\* its input: the reviews visited so far whose cleaned text is not empty and
\* whose classification did not throw, in input order, each once; never longer
\* than the input.
C6_OrderPreservingSubsequence ==
  \A r \in Req :
    LET input    == areviews[r]
        survived == {i \in 1..(aidx[r] - 1) :
                       preprocessText(input[i]) # <<>> /\ i \notin Thrown(r)}
    IN  /\ Len(aresults[r]) <= Len(input)
        /\ Originals(aresults[r]) = Restrict(input, survived)
        /\ aresp[r].success => Originals(aresp[r].results) =
             Restrict(input, {i \in 1..Len(input) :
                                preprocessText(input[i]) # <<>> /\ i \notin Thrown(r)})

\* Two different reviews both survived, in input order.
C6_Witness ==
  \E r \in Req :
    /\ aresp[r].success
    /\ Len(aresp[r].results) = 2
    /\ aresp[r].results[1].originalReview # aresp[r].results[2].originalReview

\* C7: a classification that throws drops only its review: the records pushed
\* before stay, the loop goes on with the next review that is not empty after
\* cleaning, and the request is answered with a success, never with a 500.
C7_ThrowDropsOneReview ==
  /\ [][\A r \in Req :
          (/\ apc[r] = "classify"
           /\ Len(alog'[r]) = Len(alog[r]) + 1
           /\ alog'[r][Len(alog'[r])].threw)
          => /\ aresults'[r] = aresults[r]
             /\ areviews'[r] = areviews[r]
             /\ aidx'[r] = nextToClassify(areviews[r], aidx[r] + 1)
             /\ IF aidx'[r] <= Len(areviews[r])
                  THEN apc'[r] = "classify"
                  ELSE aresp'[r].status = 200 /\ aresp'[r].success]_vars
  /\ [](\A r \in Req : alog[r] # <<>> => aresp[r].status \in {0, 200})

\* A success whose batch had a throwing review followed by a classified one.
C7_Witness ==
  \E r \in Req :
    /\ aresp[r].success
    /\ \E j, k \in DOMAIN alog[r] : j < k /\ alog[r][j].threw /\ ~alog[r][k].threw
    /\ Len(aresp[r].results) = 1

\* C8: a CSV whose review column is headed `Reviews` is accepted like one
\* headed `review`: it is not answered with the missing-column error, and it
\* is rejected only when it has no non-blank review.
C8_PluralHeaderAccepted ==
  \A r \in Req :
    (aupload[r].file /\ ~aupload[r].errors /\ aupload[r].fields = <<S_Reviews>>
       /\ aresp[r].status # 0)
    => /\ aresp[r].availableColumns = <<>>
       /\ aresp[r].status = 400 <=>
            ~\E i \in DOMAIN aupload[r].data : NonBlank(ReviewCell(aupload[r], i))

\* C10: in a success response totalReviews is the number of rows whose review
\* cell is not blank, no record stands for an empty, blank or all-punctuation
\* cell, and results is no longer than totalReviews.
C10_TotalReviews ==
  \A r \in Req :
    aresp[r].success =>
      /\ aresp[r].totalReviews =
           Cardinality({i \in DOMAIN aupload[r].data : NonBlank(ReviewCell(aupload[r], i))})
      /\ \A k \in DOMAIN aresp[r].results :
           /\ aresp[r].results[k].originalReview \notin {C_empty, C_blank, C_punct}
           /\ aresp[r].results[k].cleanedText # <<>>
           /\ \E c \in Range(aresp[r].results[k].originalReview) :
                toLowerChar(c) \in LowerLetters
      /\ Len(aresp[r].results) <= aresp[r].totalReviews

\* A success for a file with an all-punctuation row and a classified row.
C10_Witness ==
  \E r \in Req :
    /\ aresp[r].success
    /\ \E i \in DOMAIN aupload[r].data : ReviewCell(aupload[r], i) = C_punct
    /\ aresp[r].totalReviews = 2
    /\ Len(aresp[r].results) = 1

\* ------------------------------------------------------------ claims, /api/recommendations
CeilDiv(n, c) == (n + c - 1) \div c

\* The positions in rtrace of the events of one kind.
PositionsOf(ev) ==
  SelectSeq([k \in 1..Len(rtrace) |-> k], LAMBDA k : rtrace[k].ev = ev)

\* analyzeAndRecommend has returned to the handler.
Returned200 == rpc = "done" /\ rresp.status = 200 /\ rresp.hasCount

\* C2: for n >= 1 reviews and chunkSize c >= 1 the calls of analyzeAndRecommend
\* are, in this order: chunk 1, pause, chunk 2, pause, ..., chunk ceil(n/c),
\* final call; chunk k holds reviews (k-1)c+1 .. min(kc, n); a call starts only
\* when everything before it has finished; there is no pause after the last
\* chunk. For n = 120, c = 50: chunks of 50, 50, 20, two pauses, one final call.
C2_CallSequence ==
  (Len(rreviews) >= 1 /\ rsize >= 1) =>
    LET n == Len(rreviews)
        c == rsize
        m == CeilDiv(n, c)
    IN  /\ Len(rtrace) <= 2 * m
        /\ \A k \in 1..Len(rtrace) :
             /\ k < Len(rtrace) => rtrace[k].outcome # "pending"
             /\ (k % 2 = 1) =>
                  /\ rtrace[k].ev = "chunk"
                  /\ rtrace[k].batch = (k + 1) \div 2
                  /\ rtrace[k].reviews =
                       SubSeq(rreviews, ((k - 1) \div 2) * c + 1, Min(((k + 1) \div 2) * c, n))
             /\ (k % 2 = 0 /\ k < 2 * m) => rtrace[k].ev = "sleep" /\ rtrace[k].ms > 0
             /\ k = 2 * m => rtrace[k].ev = "final"
        /\ Returned200 =>
             /\ Len(rtrace) = 2 * m
             /\ Len(PositionsOf("chunk")) = m
             /\ Len(PositionsOf("sleep")) = m - 1
             /\ Len(PositionsOf("final")) = 1
        /\ (Returned200 /\ n = 120 /\ c = 50) =>
             /\ [k \in 1..Len(rtrace) |-> rtrace[k].ev] =
                  <<"chunk", "sleep", "chunk", "sleep", "chunk", "final">>
             /\ [k \in 1..3 |-> Len(rtrace[2 * k - 1].reviews)] = <<50, 50, 20>>

\* The example has run to its end, with a failed chunk on the way.
C2_Witness ==
  /\ rbody = ExampleBody
  /\ Returned200
  /\ Len(rreviews) = 120
  /\ rtrace[3].outcome = "threw"

\* C3: the texts handed to the final call are one per chunk, in chunk order:
\* the text of the model where the chunk call returned, the placeholder naming
\* the batch and the message of the error where it threw.
C3_OneEntryPerChunk ==
  \A f \in 1..Len(rtrace) :
    rtrace[f].ev = "final" =>
      LET batches == rtrace[f].batches
          calls   == PositionsOf("chunk")
      IN  /\ Len(batches) = Len(rchunks)
          /\ Len(batches) = Len(calls)
          /\ (rsize >= 1) => Len(batches) = CeilDiv(Len(rreviews), rsize)
          /\ \A i \in 1..Len(batches) :
               /\ rtrace[calls[i]].batch = i
               /\ rtrace[calls[i]].outcome = "ok"
                    => batches[i] = <<Tok("generated by call ", calls[i])>>
               /\ rtrace[calls[i]].outcome = "threw"
                    => batches[i] = <<Tok("Error processing batch ", i),
                                      Tok(rtrace[calls[i]].err, 0)>>
               /\ rtrace[calls[i]].outcome \in {"ok", "threw"}

\* One of three chunk calls threw and the final call got three texts.
C3_Witness ==
  \E f \in 1..Len(rtrace) :
    /\ rtrace[f].ev = "final"
    /\ Len(rtrace[f].batches) = 3
    /\ rtrace[1].outcome = "ok"
    /\ rtrace[3].outcome = "threw"
    /\ rtrace[5].outcome = "ok"

\* C4: once a chunk call has been attempted the request is never answered
\* with an error: it ends in a success whose text is a string, and when the
\* final call threw that text is the per-chunk texts joined with the divider.
C4_AlwaysReturnsText ==
  (Len(PositionsOf("chunk")) >= 1) =>
    /\ rresp.status \in {0, 200}
    /\ rpc = "done" =>
         /\ rresp.success
         /\ rresp.recommendations # <<>>
         /\ rtrace[Len(rtrace)].ev = "final"
         /\ rtrace[Len(rtrace)].outcome = "threw" =>
              /\ rresp.recommendations = join(rtrace[Len(rtrace)].batches, Divider)
              /\ Len(SelectSeq(rresp.recommendations, LAMBDA t : t = Divider)) =
                   Len(rchunks) - 1

\* A chunk call and the final call threw, and the request got the joined texts.
C4_Witness ==
  /\ rpc = "done"
  /\ rresp.success
  /\ Len(rbatch) >= 2
  /\ rtrace[1].outcome = "threw"
  /\ rtrace[Len(rtrace)].ev = "final"
  /\ rtrace[Len(rtrace)].outcome = "threw"

\* C9: a body whose negativeReviews is the empty array is answered with the
\* canned success, and no call of the generative capability is made for it.
C9_EmptyListNoCalls ==
  (rbody.kind = "array" /\ rbody.negativeReviews = <<>>) =>
    /\ rtrace = <<>>
    /\ rpc \in {"idle", "done"}
    /\ rpc = "done" =>
         /\ rresp.status = 200
         /\ rresp.success
         /\ rresp.message = "No negative reviews to analyze"
         /\ rresp.recommendations = CannedRecommendation

\* The empty list has been answered.
C9_Witness ==
  /\ rbody.kind = "array"
  /\ rbody.negativeReviews = <<>>
  /\ rpc = "done"
  /\ rresp.success

\* ------------------------------------------------------------ claims, preprocessText
Cleaned == ppc = "done" /\ pfn = "preprocessText"

\* C11: the output of preprocessText holds only the letters a-z and single
\* spaces: no other character, no two adjacent spaces, no space at either end.
C11_NormalizedAlphabet ==
  Cleaned =>
    /\ \A i \in 1..Len(pout) : pout[i] \in LowerLetters \cup {" "}
    /\ \A i \in 1..(Len(pout) - 1) : ~(pout[i] = " " /\ pout[i + 1] = " ")
    /\ pout # <<>> => pout[1] # " " /\ pout[Len(pout)] # " "

\* A text with a capital, punctuation and a run of white space was cleaned.
C11_Witness ==
  /\ Cleaned
  /\ pin = <<"Z", " ", "\t", "a">>
  /\ pout = <<"z", " ", "a">>

\* C12 as stated: `Hi! @bob #great http://x.co` is cleaned to `hi great`.
C12_ExampleKeepsHashtagWord ==
  (Cleaned /\ pin = T_example) => pout = <<"h","i"," ","g","r","e","a","t">>

\* C12 as amended: `Hi! @bob #great http://x.co` is cleaned to `hi`: the URL,
\* the @mention and the whole #hashtag, its word included, are removed.
C12_ExampleRemovesHashtag ==
  (Cleaned /\ pin = T_example) => pout = <<"h","i">>

\* The example text was cleaned.
C12_Witness ==
  /\ Cleaned
  /\ pin = T_example
  /\ Len(pout) = 2

\* C13: for a non-empty negativeReviews the handler hands analyzeAndRecommend
\* the first min(length, maxReviews) reviews in their order, with maxReviews
\* 100 and chunkSize 50 when absent, and a success response counts the reviews
\* handed over.
C13_TruncateToMaxReviews ==
  (rbody.kind = "array" /\ rbody.negativeReviews # <<>> /\ rpc # "idle") =>
    LET maxReviews == IF rbody.maxReviews.given THEN rbody.maxReviews.value ELSE 100
        chunkSize  == IF rbody.chunkSize.given THEN rbody.chunkSize.value ELSE 50
        length     == Len(rbody.negativeReviews)
    IN  /\ rreviews = SubSeq(rbody.negativeReviews, 1, Min(length, maxReviews))
        /\ rsize = chunkSize
        /\ rresp.success => rresp.hasCount /\ rresp.analyzedCount = Len(rreviews)

\* C14: a body whose negativeReviews is missing or is not an array is
\* answered 400, and no call of the generative capability is made for it.
C14_InvalidBodyRejected ==
  (rbody.kind # "array") =>
    /\ rtrace = <<>>
    /\ rpc \in {"idle", "done"}
    /\ rpc = "done" =>
         /\ rresp.status = 400
         /\ ~rresp.success
         /\ rresp.error = "Invalid request: negativeReviews array required"

\* A body whose negativeReviews is not an array has been answered.
C14_Witness ==
  /\ rbody.kind = "notArray"
  /\ rpc = "done"
  /\ rresp.status = 400

\* The loads request r started.
LoadsOf(r) == {k \in DOMAIN loads : loads[k].req = r}

LoadsOfModel(r, model) == {k \in LoadsOf(r) : loads[k].model = model}

\* C16: a request loads each model at most once; it loads the 2-class model
\* exactly when its 3-class load failed, and after it; when the 2-class load
\* succeeds every classification of the request uses that model and the request
\* is not answered 500; the request is answered 500 exactly when its 2-class
\* load failed too, with an error, a message and no results.
C16_FallbackLoad ==
  \A r \in Req :
    LET l3 == LoadsOfModel(r, "3class")
        l2 == LoadsOfModel(r, "2class")
    IN  /\ Cardinality(l3) <= 1
        /\ Cardinality(l2) <= 1
        /\ l2 # {} <=> \E k \in l3 : loads[k].status = "failed"
        /\ \A k2 \in l2 :
             /\ \A k3 \in l3 : k3 < k2
             /\ loads[k2].status = "pending" <=> apc[r] = "load2"
             /\ loads[k2].status = "ok" =>
                  /\ apipe[r] = Handle("2class", k2)
                  /\ \A c \in DOMAIN alog[r] : alog[r][c].handle = Handle("2class", k2)
                  /\ aresp[r].status \in {0, 200}
                  /\ apc[r] = "done" => aresp[r].status = 200
        /\ aresp[r].status = 500 <=> \E k2 \in l2 : loads[k2].status = "failed"
        /\ aresp[r].status = 500 =>
             /\ aresp[r].error # ""
             /\ aresp[r].message # ""
             /\ aresp[r].results = <<>>
             /\ ~aresp[r].success
             /\ alog[r] = <<>>

\* One request was analysed with the fallback model and another one, whose two
\* loads failed, was answered 500.
C16_Witness ==
  \E r, q \in Req :
    /\ \E k \in LoadsOfModel(r, "2class") : loads[k].status = "ok"
    /\ aresp[r].status = 200
    /\ Len(aresp[r].results) >= 1
    /\ \A c \in DOMAIN alog[r] : alog[r][c].handle.model = "2class"
    /\ aresp[q].status = 500

\* C17: the memoized handle is read-only after initialization. Once
\* sentimentPipeline holds a loaded model no step assigns it again, and all the
\* classifications of the process use one and the same handle.
C17_HandleAssignedOnce ==
  /\ [][sentimentPipeline # NoHandle => sentimentPipeline' = sentimentPipeline]_vars
  /\ [](\A r1, r2 \in Req : \A c1 \in DOMAIN alog[r1] : \A c2 \in DOMAIN alog[r2] :
          alog[r1][c1].handle = alog[r2][c2].handle)

\* ------------------------------------------------------------ claims, label mapping
\* The label of an output contains the word, whatever the case of its letters.
ContainsIgnoringCase(out, word) ==
  /\ out.hasLabel
  /\ \E i \in 1..Len(out.label) :
       /\ i + Len(word) - 1 <= Len(out.label)
       /\ \A k \in 1..Len(word) : toLowerChar(out.label[i + k - 1]) = word[k]

Mapped == ppc = "done" /\ pfn = "mapLabel"

\* C18: a label that contains neg, in any case, maps to negative; otherwise one
\* that contains neu maps to neutral; otherwise one that contains pos maps to
\* positive; any other label, and a missing label, maps to neutral. The stored
\* sentiment is the mapped one, or neutral below the threshold: always one of
\* the three.
C18_LabelMapping ==
  Mapped =>
    LET expected ==
          IF ContainsIgnoringCase(pin, <<"n","e","g">>) THEN "negative"
          ELSE IF ContainsIgnoringCase(pin, <<"n","e","u">>) THEN "neutral"
          ELSE IF ContainsIgnoringCase(pin, <<"p","o","s">>) THEN "positive"
          ELSE "neutral"
    IN  /\ pout.normalized = expected
        /\ pout.sentiment \in {expected, "neutral"}
        /\ scoreOf(pin) >= NEUTRAL_SCORE_THRESHOLD => pout.sentiment = expected
        /\ pout.sentiment \in {"positive", "neutral", "negative"}

\* The label posneg, which contains both pos and neg, was stored as negative.
C18_Witness ==
  /\ Mapped
  /\ pin.hasLabel
  /\ pin.label = L_posneg
  /\ pout.sentiment = "negative"

\* ------------------------------------------------------------ claims, serialization
\* The generative calls of the request that have not returned or thrown.
Outstanding ==
  {k \in DOMAIN rtrace : rtrace[k].ev \in {"chunk", "final"} /\ rtrace[k].outcome = "pending"}

Finished(k) == rtrace[k].outcome \in {"ok", "threw"}

\* C19: the generative calls of one request are serialized. At most one is
\* outstanding, and nothing is started while a call or a pause is pending;
\* the call of chunk i+1 comes right after the elapsed pause that follows the
\* finished call of chunk i; the final call comes after all the chunk calls
\* have finished and is the last one.
C19_Serialized ==
  /\ Cardinality(Outstanding) <= 1
  /\ \A k \in DOMAIN rtrace :
       /\ rtrace[k].outcome = "pending" => k = Len(rtrace)
       /\ (rtrace[k].ev = "chunk" /\ rtrace[k].batch = 1) => k = 1
       /\ (rtrace[k].ev = "chunk" /\ rtrace[k].batch >= 2) =>
            /\ k >= 3
            /\ rtrace[k - 1].ev = "sleep" /\ rtrace[k - 1].outcome = "ok"
            /\ rtrace[k - 2].ev = "chunk" /\ Finished(k - 2)
            /\ rtrace[k - 2].batch = rtrace[k].batch - 1
       /\ rtrace[k].ev = "final" =>
            /\ k = Len(rtrace)
            /\ \A j \in 1..(k - 1) : Finished(j)
            /\ Len(PositionsOf("chunk")) = Len(rchunks)
            /\ k > 1 => rtrace[k - 1].ev = "chunk" /\ rtrace[k - 1].batch = Len(rchunks)

\* The final call is outstanding after two or more chunk calls, the first of
\* which threw.
C19_Witness ==
  /\ rpc = "finalCall"
  /\ Len(PositionsOf("chunk")) >= 2
  /\ rtrace[1].outcome = "threw"
  /\ Outstanding = {Len(rtrace)}

\* ------------------------------------------------------------ claims, memoization
\* Request r enters analyzeReviews in this step.
EntersAnalyzeReviews(r) ==
  /\ apc[r] = "idle"
  /\ apc'[r] # "idle"
  /\ aresp'[r].status # 400

\* C20: lazy and memoized loading. A request that enters analyzeReviews when
\* the handle is cached starts no load and works with the cached handle; one
\* that enters when nothing is cached starts the load of the 3-class model;
\* before any request is handled nothing is loaded and no load has started.
C20_LazyMemoizedLoad ==
  /\ [][\A r \in Req :
          EntersAnalyzeReviews(r) =>
            IF sentimentPipeline # NoHandle
              THEN /\ loads' = loads
                   /\ aload'[r] = 0
                   /\ apipe'[r] = sentimentPipeline
                   /\ sentimentPipeline' = sentimentPipeline
              ELSE /\ Len(loads') = Len(loads) + 1
                   /\ loads'[Len(loads')] = [req |-> r, model |-> "3class", status |-> "pending"]
                   /\ apc'[r] = "load3"]_vars
  /\ []((\A r \in Req : apc[r] \in {"idle", "none"}) =>
          (loads = <<>> /\ sentimentPipeline = NoHandle))
  /\ [](\A r \in Req : (apipe[r] # NoHandle /\ aload[r] = 0) => LoadsOf(r) = {})

\* A request that arrived after the load of another request had finished
\* holds a handle without having loaded anything.
C20_Witness ==
  \E r, q \in Req :
    /\ apipe[r] # NoHandle
    /\ aload[r] = 0
    /\ LoadsOf(r) = {}
    /\ \E k \in LoadsOf(q) : loads[k].status = "ok" /\ apipe[r] = Handle(loads[k].model, k)
    /\ Len(alog[r]) >= 1

\* ------------------------------------------------------------ claims, chunkArray
\* chunkArray has returned its chunks to analyzeAndRecommend.
ChunkArrayReturned == rpc \in {"chunkCall", "sleep", "finalCall"} \/ rtrace # <<>>

RECURSIVE Concat(_)
Concat(seqs) == IF seqs = <<>> THEN <<>> ELSE Head(seqs) \o Concat(Tail(seqs))

\* C21: for a size of 1 or more the chunks chunkArray returns, concatenated in
\* order, are the input; each chunk has 1..size items, each but the last has
\* size items, and there are ceil(length / size) chunks (none for an empty
\* input).
C21_ChunkArrayPartitions ==
  (ChunkArrayReturned /\ rsize >= 1) =>
    /\ Concat(rchunks) = rreviews
    /\ \A k \in DOMAIN rchunks :
         /\ Len(rchunks[k]) \in 1..rsize
         /\ k < Len(rchunks) => Len(rchunks[k]) = rsize
    /\ Len(rchunks) = CeilDiv(Len(rreviews), rsize)
    /\ rreviews = <<>> => rchunks = <<>>

\* Three or more reviews were cut into chunks of two or more, the last one
\* shorter than the others.
C21_Witness ==
  /\ ChunkArrayReturned
  /\ rsize >= 2
  /\ Len(rchunks) >= 2
  /\ Len(rchunks[Len(rchunks)]) < rsize
  /\ rbody # ExampleBody

\* ------------------------------------------------------------ claims, special characters
Letters == LowerLetters \cup UpperLetters

\* Position i of the cleaned text holds a character that is neither a letter
\* nor white space nor the start of a tag, the text has letters only on both
\* sides of it, and no URL starts in the text.
SpecialBetweenLetters(i) ==
  /\ Cleaned
  /\ 1 < i /\ i < Len(pin)
  /\ pin[i] \notin Letters \cup WhiteSpace \cup {"@", "#"}
  /\ \A k \in (1..Len(pin)) \ {i} : pin[k] \in Letters
  /\ ~includes(toLowerCase(pin), <<"w","w","w">>)
  /\ ~includes(toLowerCase(pin), <<"h","t","t","p">>)

\* C22 as stated: a digit or punctuation mark between two letters is deleted
\* and the letters on its two sides become adjacent.
C22_SpecialDeletedNoSeparator ==
  Cleaned => \A i \in 1..Len(pin) :
    SpecialBetweenLetters(i) =>
      pout = toLowerCase(SubSeq(pin, 1, i - 1)) \o toLowerCase(SubSeq(pin, i + 1, Len(pin)))

\* C22 as amended: a digit or punctuation mark between two letters is replaced
\* by one space, which separates the letters on its two sides in the output.
C22_SpecialBecomesSpace ==
  Cleaned => \A i \in 1..Len(pin) :
    SpecialBetweenLetters(i) =>
      pout = toLowerCase(SubSeq(pin, 1, i - 1)) \o <<" ">>
               \o toLowerCase(SubSeq(pin, i + 1, Len(pin)))

\* a7Z was cleaned to two words.
C22_Witness ==
  /\ Cleaned
  /\ SpecialBetweenLetters(2)
  /\ pin = <<"a", "7", "Z">>
  /\ pout = <<"a", " ", "z">>

\* ------------------------------------------------------------ claims, confidence
Scored == ppc = "done" /\ pfn = "confidence"

\* C23: the stored confidence, counted in thousandths, is a whole number of
\* thousandths from 0 to 1000, the nearest one to the score of the classifier;
\* it is 0 when the classifier gave no score.
C23_ConfidenceRange ==
  Scored =>
    /\ pout \in 0..1000
    /\ pin.hasScore =>
         /\ 2 * (pout * ScoreScale - 1000 * pin.score) <= ScoreScale
         /\ 2 * (1000 * pin.score - pout * ScoreScale) <= ScoreScale
    /\ ~pin.hasScore => pout = 0

\* The score 0.6123 was stored as 0.612.
C23_Witness ==
  /\ Scored
  /\ pin.hasScore
  /\ pin.score = 6123
  /\ pout = 612

\* ------------------------------------------------------------ claims, termination
\* C24: every request whose negativeReviews is an array is answered in the
\* end, whatever maxReviews and chunkSize it carries.
C24_EventuallyResponds ==
  (rpc = "idle" /\ rbody.kind = "array") ~> (rpc = "done")

\* ------------------------------------------------------------ claims, empty batches
\* C25: when a call to the generative model is made at least one review is
\* being analysed, and the final call is given at least one per-chunk text.
C25_NeverCallsWithoutReviews ==
  \A k \in DOMAIN rtrace :
    /\ Len(rreviews) >= 1
    /\ rtrace[k].ev = "final" => Len(rtrace[k].batches) >= 1

\* ------------------------------------------------------------ claims, missing API key
\* C26: without GEMINI_API_KEY nothing is chunked and the generative model is
\* never called; a request with a non-empty list is answered 500 with an error
\* and a message, one with an empty list gets the canned success.
C26_MissingKey ==
  ~apiKey =>
    /\ rtrace = <<>>
    /\ rchunks = <<>> /\ rci = 0
    /\ rpc \in {"idle", "done"}
    /\ (rpc = "done" /\ rbody.kind = "array") =>
         IF rbody.negativeReviews # <<>>
           THEN /\ rresp.status = 500
                /\ ~rresp.success
                /\ rresp.error # ""
                /\ rresp.message = "GEMINI_API_KEY not configured in environment variables"
                /\ rresp.recommendations = <<>>
           ELSE rresp = RecCanned

\* A request with reviews was answered 500 because the key is missing.
C26_Witness ==
  /\ ~apiKey
  /\ rpc = "done"
  /\ Len(rbody.negativeReviews) >= 2
  /\ rresp.status = 500

\* ------------------------------------------------------------ claims, failed loads
\* Request q was answered 500 in this step: its two loads have failed.
FailsToLoad(q) == aresp[q].status = 0 /\ aresp'[q].status = 500

\* C27: a failed load is not memoized. The step in which both loads of a
\* request have failed leaves sentimentPipeline as it was; a cached handle is
\* always the handle of a load that succeeded; and a request that enters
\* analyzeReviews after such a failure, with nothing cached, loads the 3-class
\* model again.
C27_FailureNotMemoized ==
  /\ [][\A q \in Req : FailsToLoad(q) => sentimentPipeline' = sentimentPipeline]_vars
  /\ [](sentimentPipeline # NoHandle =>
          \E k \in DOMAIN loads :
            /\ loads[k].status = "ok"
            /\ sentimentPipeline = Handle(loads[k].model, k))
  /\ []((\A k \in DOMAIN loads : loads[k].status = "failed") => sentimentPipeline = NoHandle)
  /\ [][\A q, r \in Req :
          (aresp[q].status = 500 /\ sentimentPipeline = NoHandle /\ EntersAnalyzeReviews(r))
            => /\ apc'[r] = "load3"
               /\ loads'[aload'[r]] = [req |-> r, model |-> "3class", status |-> "pending"]
               /\ aload'[r] > aload[q]]_vars

\* After a request whose two loads failed, the load of a later request
\* succeeded and its handle is the cached one.
C27_Witness ==
  \E q, r \in Req :
    /\ aresp[q].status = 500
    /\ \E k \in LoadsOfModel(r, "3class") :
         /\ loads[k].status = "ok"
         /\ \A j \in LoadsOf(q) : j < k
         /\ sentimentPipeline = Handle("3class", k)

\* ------------------------------------------------------------ claims, the Analyze page
\* The handler of the page that was called last.
LastCalled == ulog[Len(ulog)]

\* C28: the page never holds an error message and results together. After
\* handleAnalysisComplete it holds results and no error, after handleError an
\* error and no results, after handleReset neither.
C28_ResultOrError ==
  /\ ~(uerror # "" /\ analysisResults # 0)
  /\ ulog # <<>> =>
       /\ LastCalled.handler = "handleAnalysisComplete" =>
            analysisResults = LastCalled.upload /\ uerror = ""
       /\ LastCalled.handler = "handleError" => analysisResults = 0 /\ uerror # ""
       /\ LastCalled.handler = "handleReset" => analysisResults = 0 /\ uerror = ""

\* An upload failed, the user clicked Try Again, and the next upload succeeded.
C28_Witness ==
  /\ Len(ulog) >= 3
  /\ ulog[Len(ulog) - 2].handler = "handleError"
  /\ ulog[Len(ulog) - 2].upload # 0
  /\ ulog[Len(ulog) - 1].handler = "handleReset"
  /\ LastCalled.handler = "handleAnalysisComplete"
  /\ analysisResults = LastCalled.upload

\* The positions in ulog of the handlers called for a response.
Responses == {k \in DOMAIN ulog : ulog[k].upload # 0}

\* C29: at most one upload is in flight; the dropzone is disabled exactly
\* while one is; and the responses are handled in the order of the uploads.
C29_OneUploadInFlight ==
  /\ Cardinality(uflight) <= 1
  /\ loading <=> uflight # {}
  /\ \A j, k \in Responses : j < k => ulog[j].upload < ulog[k].upload

\* ------------------------------------------------------------ claims, empty results
\* C30: a success response of /api/analyze carries at least one record.
C30_SuccessHasRecords ==
  \A r \in Req : aresp[r].success => Len(aresp[r].results) >= 1

====
